---- MODULE Spec2Model ----
(***************************************************************************)
(* A model of scribble (src/scribble.go): a JSON document store that keeps *)
(* one file per resource under <dir>/<collection>/<resource>.              *)
(*                                                                         *)
(* Path strings are modelled as records [abs, segs]: whether the string    *)
(* starts with a separator, and the segments between separators.  File     *)
(* contents are sequences of byte tokens.  The file system is a tree of    *)
(* directories and regular files keyed by absolute, cleaned paths.         *)
(***************************************************************************)
EXTENDS Integers, Sequences, FiniteSets, TLC

(***************************************************************************)
(* Path strings                                                            *)
(***************************************************************************)

\* The string with the given segments; abs when it starts with "/".
Str(abs, segs) == [abs |-> abs, segs |-> segs]

\* The empty string "".
EmptyStr == Str(FALSE, <<>>)

\* The string ".", what filepath.Clean returns for an empty result.
DotStr == Str(FALSE, <<".">>)

\* The string "/".
SlashStr == Str(TRUE, <<>>)

\* filepath.Clean's pass over the segments: drops "" and ".", and lets ".."
\* remove the segment before it (at the root it is dropped; at the start of
\* a relative path it is kept).
RECURSIVE CleanSegs(_, _, _)
CleanSegs(abs, segs, acc) ==
    IF segs = <<>> THEN acc
    ELSE LET s == Head(segs)
             rest == Tail(segs)
         IN IF s = "" \/ s = "." THEN CleanSegs(abs, rest, acc)
            ELSE IF s = ".."
                 THEN IF acc # <<>> /\ acc[Len(acc)] # ".."
                      THEN CleanSegs(abs, rest, SubSeq(acc, 1, Len(acc) - 1))
                      ELSE IF abs THEN CleanSegs(abs, rest, acc)
                           ELSE CleanSegs(abs, rest, Append(acc, ".."))
                 ELSE CleanSegs(abs, rest, Append(acc, s))

\* filepath.Clean.
Clean(p) ==
    LET s == CleanSegs(p.abs, p.segs, <<>>)
    IN IF ~p.abs /\ s = <<>> THEN DotStr ELSE Str(p.abs, s)

\* filepath.Join of two elements: empty elements are ignored, the rest are
\* joined with a separator and cleaned.
Join(a, b) ==
    IF a = EmptyStr /\ b = EmptyStr THEN EmptyStr
    ELSE IF a = EmptyStr THEN Clean(b)
    ELSE IF b = EmptyStr THEN Clean(a)
    ELSE Clean(Str(a.abs, a.segs \o b.segs))

\* String concatenation p + ext, for an ext without separators.
Suffix(p, ext) ==
    IF p.segs = <<>> THEN Str(p.abs, <<ext>>)
    ELSE Str(p.abs, [p.segs EXCEPT ![Len(p.segs)] = @ \o ext])

\* strings.HasPrefix(dir, "/home/").
HasHomePrefix(p) == p.abs /\ Len(p.segs) >= 2 /\ p.segs[1] = "home"

\* strings.Count(dir, "/").
CountSlash(p) ==
    IF p.abs THEN (IF p.segs = <<>> THEN 1 ELSE Len(p.segs))
    ELSE (IF p.segs = <<>> THEN 0 ELSE Len(p.segs) - 1)

(***************************************************************************)
(* The file system                                                         *)
(***************************************************************************)

\* The node an absolute cleaned path names.
Node(p) == p.segs

Parent(n) == SubSeq(n, 1, Len(n) - 1)

IsPrefix(a, b) == Len(a) <= Len(b) /\ SubSeq(b, 1, Len(a)) = a

Prefixes(n) == {SubSeq(n, 1, i) : i \in 0..Len(n)}

ProperPrefixes(n) == {SubSeq(n, 1, i) : i \in 0..(Len(n) - 1)}

\* os.Stat: "dir", "file", or the error.
Stat(f, n) ==
    IF \E q \in ProperPrefixes(n) : q \in DOMAIN f.files THEN "ENOTDIR"
    ELSE IF n \in f.dirs THEN "dir"
    ELSE IF n \in DOMAIN f.files THEN "file"
    ELSE "ENOENT"

\* os.MkdirAll: creates the directory and its missing ancestors.
MkdirAll(f, n) ==
    IF \E q \in Prefixes(n) : q \in DOMAIN f.files
    THEN [err |-> "ENOTDIR", fs |-> f]
    ELSE [err |-> "nil", fs |-> [f EXCEPT !.dirs = @ \cup Prefixes(n)]]

\* The open(O_WRONLY|O_CREATE|O_TRUNC) of ioutil.WriteFile.
OpenTrunc(f, n) ==
    IF Stat(f, Parent(n)) # "dir"
    THEN [err |-> IF Stat(f, Parent(n)) = "ENOENT" THEN "ENOENT" ELSE "ENOTDIR",
          fs |-> f]
    ELSE IF n \in f.dirs THEN [err |-> "EISDIR", fs |-> f]
    ELSE [err |-> "nil",
          fs |-> [f EXCEPT !.files =
                     [q \in DOMAIN f.files \cup {n} |->
                          IF q = n THEN <<>> ELSE f.files[q]]]]

\* A file descriptor: the path its file is linked at, while it is linked.
NoFd == [live |-> FALSE, path |-> <<>>]

FdAt(n) == [live |-> TRUE, path |-> n]

\* The write of ioutil.WriteFile: the bytes go to offset 0 of the open file.
WriteFd(f, fd, b) ==
    IF ~fd.live THEN f
    ELSE [f EXCEPT !.files[fd.path] = b \o SubSeq(@, Len(b) + 1, Len(@))]

\* os.Rename of a regular file: replaces a file at the new path in one step.
Rename(f, old, new) ==
    IF Stat(f, old) # "file"
    THEN [err |-> IF Stat(f, old) = "dir" THEN "EISDIR" ELSE Stat(f, old), fs |-> f]
    ELSE IF Stat(f, Parent(new)) # "dir"
    THEN [err |-> IF Stat(f, Parent(new)) = "ENOENT" THEN "ENOENT" ELSE "ENOTDIR",
          fs |-> f]
    ELSE IF new \in f.dirs THEN [err |-> "EISDIR", fs |-> f]
    ELSE [err |-> "nil",
          fs |-> [f EXCEPT !.files =
                     [q \in (DOMAIN f.files \ {old}) \cup {new} |->
                          IF q = new THEN f.files[old] ELSE f.files[q]]]]

\* What a rename does to an open descriptor.
FdAfterRename(fd, old, new) ==
    IF ~fd.live \/ old = new THEN fd
    ELSE IF fd.path = old THEN FdAt(new)
    ELSE IF fd.path = new THEN NoFd
    ELSE fd

\* os.Remove in the place of os.RemoveAll: a directory that is not empty
\* stays.
RemoveOnly(f, n) ==
    IF \E x \in f.dirs \cup DOMAIN f.files : IsPrefix(n, x) /\ x # n THEN f
    ELSE [dirs |-> f.dirs \ {n},
          files |-> [q \in DOMAIN f.files \ {n} |-> f.files[q]]]

\* os.RemoveAll: removes the path and everything below it.
RemoveAll(f, n) ==
    [dirs |-> {d \in f.dirs : ~IsPrefix(n, d)},
     files |-> [q \in {x \in DOMAIN f.files : ~IsPrefix(n, x)} |-> f.files[q]]]

\* What a removal does to an open descriptor.
FdAfterRemove(fd, n) ==
    IF fd.live /\ IsPrefix(n, fd.path) THEN NoFd ELSE fd

\* ioutil.ReadFile.
ReadFile(f, n) ==
    IF Stat(f, n) = "file" THEN [b |-> f.files[n], err |-> "nil"]
    ELSE [b |-> <<>>, err |-> IF Stat(f, n) = "dir" THEN "EISDIR" ELSE Stat(f, n)]

\* Every file name the model can create, in byte order.
SortedNames ==
    <<"a", "a.tmp", "a.tmp.tmp", "fish", "home", "u", "x", "x.tmp">>

\* ioutil.ReadDir: the entries of a directory sorted by file name; its error
\* is dropped by the callers, which then see no entries.
ReadDir(f, n) ==
    IF Stat(f, n) # "dir" THEN <<>>
    ELSE SelectSeq(SortedNames,
                   LAMBDA s : Append(n, s) \in f.dirs \cup DOMAIN f.files)

(***************************************************************************)
(* JSON: the stored values are arrays of digits                            *)
(***************************************************************************)

\* The bytes of element i and what follows it in the indented array.
RECURSIVE MarshalElems(_, _)
MarshalElems(v, i) ==
    IF i > Len(v) THEN <<>>
    ELSE <<"\n", "\t", ToString(v[i])>>
         \o (IF i < Len(v) THEN <<",">> ELSE <<>>)
         \o MarshalElems(v, i + 1)

\* An element json.Marshal has no encoding for (a channel, a func).
NoJSON == 10

\* json.MarshalIndent returns no error for v.
Marshalable(v) == \A i \in 1..Len(v) : v[i] \in 0..9

\* json.MarshalIndent(v, "", "\t").
MarshalIndent(v) ==
    IF v = <<>> THEN <<"[", "]">>
    ELSE <<"[">> \o MarshalElems(v, 1) \o <<"\n", "]">>

IsSpace(t) == t \in {"\n", "\t", " ", "\r"}

Digits == {ToString(i) : i \in 0..9}

DigitValue(t) == CHOOSE i \in 0..9 : ToString(i) = t

\* The elements between the brackets: digit, comma, digit, ...
RECURSIVE ParseElems(_, _)
ParseElems(t, i) ==
    IF i > Len(t) THEN [v |-> <<>>, ok |-> FALSE]
    ELSE IF t[i] \notin Digits THEN [v |-> <<>>, ok |-> FALSE]
    ELSE IF i = Len(t) THEN [v |-> <<DigitValue(t[i])>>, ok |-> TRUE]
    ELSE IF t[i + 1] # "," THEN [v |-> <<>>, ok |-> FALSE]
    ELSE LET rest == ParseElems(t, i + 2)
         IN [v |-> IF rest.ok THEN <<DigitValue(t[i])>> \o rest.v ELSE <<>>,
             ok |-> rest.ok]

\* json.Unmarshal into a slice: white space between tokens is skipped.
Unmarshal(b) ==
    LET t == SelectSeq(b, LAMBDA x : ~IsSpace(x))
    IN IF Len(t) < 2 \/ t[1] # "[" \/ t[Len(t)] # "]"
       THEN [v |-> <<>>, ok |-> FALSE]
       ELSE IF Len(t) = 2 THEN [v |-> <<>>, ok |-> TRUE]
       ELSE ParseElems(SubSeq(t, 2, Len(t) - 1), 1)

(***************************************************************************)
(* Inputs                                                                  *)
(***************************************************************************)

\* The callers: goroutines sharing one *Driver.
Procs == {"p1", "p2"}

\* The directories New is tried on: the root, the tilde, the drive root C:,
\* /home/u, /home/u/x and /home/u/x/.. (which cleans to /home/u).
RootDirs ==
    {SlashStr, Str(FALSE, <<"~">>), Str(FALSE, <<"C:\\">>),
     Str(TRUE, <<"home", "u">>), Str(TRUE, <<"home", "u", "x">>),
     Str(TRUE, <<"home", "u", "x", "..">>)}

\* The collection arguments: "" and "fish".
Collections == {EmptyStr, Str(FALSE, <<"fish">>)}

\* The resource arguments: "", "a", "a.tmp", ".." and "a/b".
Resources ==
    {EmptyStr, Str(FALSE, <<"a">>), Str(FALSE, <<"a.tmp">>),
     Str(FALSE, <<"..">>), Str(FALSE, <<"a", "b">>)}

\* The values written: [7] and [1, 2].
Values == {<<7>>, <<1, 2>>}

\* The calls each concurrent caller makes.
MaxCalls == 2

(***************************************************************************)
(* State                                                                   *)
(***************************************************************************)

VARIABLES
    fs,       \* the file system: [dirs, files]
    driver,   \* the caller's *Driver (db): [ok, dir]
    mutexes,  \* d.mutexes: lock key -> the mutex value stored for it
    guard,    \* d.mutex: "free" or the caller holding it
    pc,       \* where each caller is in its call
    call,     \* each caller's call: [op, c, r, v]
    mtx,      \* each caller's local variable mutex (TRUE: locked)
    fd,       \* each caller's open temp file
    loc,      \* ReadAll's locals: [names, recs]
    res,      \* each caller's last result: [err, val]
    lastMut,  \* the last New, Write or Delete completed before the current call
    track,    \* a successful Write with no later New, Delete or Write(c, r, _)
    calls,    \* the number of calls each caller has made
    store,    \* the resources written and not deleted since: <<c, r>> -> v
    pre       \* the file system when the current call was made

vars ==
    <<fs, driver, mutexes, guard, pc, call, mtx, fd, loc, res, lastMut, track,
      calls, store, pre>>

NoDriver == [ok |-> FALSE, dir |-> EmptyStr]

NoCall == [v |-> <<>>, op |-> "none", c |-> EmptyStr, r |-> EmptyStr]

NoRes == [err |-> "nil", val |-> <<>>]

NoLoc == [names |-> <<>>, recs |-> <<>>]

NoMut == [err |-> "nil", call |-> NoCall]

NoTrack == [v |-> <<>>, c |-> EmptyStr, r |-> EmptyStr, on |-> FALSE]

\* Before any call: the machine has /home/u, and no database exists.
Init ==
    /\ fs = [dirs |-> {<<>>, <<"home">>, <<"home", "u">>}, files |-> <<>>]
    /\ driver = NoDriver
    /\ mutexes = <<>>
    /\ guard = "free"
    /\ pc = [p \in Procs |-> "idle"]
    /\ call = [p \in Procs |-> NoCall]
    /\ mtx = [p \in Procs |-> FALSE]
    /\ fd = [p \in Procs |-> NoFd]
    /\ loc = [p \in Procs |-> NoLoc]
    /\ res = [p \in Procs |-> NoRes]
    /\ lastMut = NoMut
    /\ track = NoTrack
    /\ calls = [p \in Procs |-> 0]
    /\ store = <<>>
    /\ pre = fs

(***************************************************************************)
(* Argument checks and derived paths                                       *)
(***************************************************************************)

\* A deny-list without the /home clause.
UnsafeDirNoHome(d) ==
    \/ d = SlashStr
    \/ d = Str(FALSE, <<"C:\\">>)
    \/ d = Str(FALSE, <<"~">>)

\* New's deny-list, on the cleaned dir.
UnsafeDir(d) ==
    \/ d = SlashStr
    \/ d = Str(FALSE, <<"C:\\">>)
    \/ d = Str(FALSE, <<"~">>)
    \/ (HasHomePrefix(d) /\ CountSlash(d) <= 2)

NewCheck(dir) == IF UnsafeDir(Clean(dir)) THEN "Unsafe" ELSE "nil"

WriteCheck(c, r) ==
    IF c = EmptyStr THEN "MissingCollection"
    ELSE IF r = EmptyStr THEN "MissingResource"
    ELSE "nil"

ReadCheck(c, r) ==
    IF c = EmptyStr THEN "MissingCollection"
    ELSE IF r = EmptyStr THEN "MissingResource"
    ELSE "nil"

ReadAllCheck(c) == IF c = EmptyStr THEN "MissingCollection" ELSE "nil"

\* Delete's check without the "." that filepath.Clean makes of "".
DeleteCheckNoDot(c) ==
    IF Clean(c) = EmptyStr \/ Clean(c) = SlashStr
    THEN "MissingCollection"
    ELSE "nil"

\* Delete: the check of the cleaned collection.
DeleteCheck(c) ==
    IF Clean(c) = EmptyStr \/ Clean(c) = SlashStr \/ Clean(c) = DotStr
    THEN "MissingCollection"
    ELSE "nil"

Check(k) ==
    CASE k.op = "New" -> NewCheck(k.c)
      [] k.op = "Write" -> WriteCheck(k.c, k.r)
      [] k.op = "Read" -> ReadCheck(k.c, k.r)
      [] k.op \in {"ReadAll", "ReadAllMap"} -> ReadAllCheck(k.c)
      [] k.op = "Delete" -> DeleteCheck(k.c)

FirstPc(op) ==
    CASE op = "New" -> "n_stat"
      [] op \in {"Write", "Delete"} -> "guard"
      [] op = "Read" -> "r_stat"
      [] op \in {"ReadAll", "ReadAllMap"} -> "ra_stat"

\* Write's dir, fnlPath and tmpPath.
WriteDir(d, k) == Join(d.dir, k.c)

FnlPath(d, k) == Join(WriteDir(d, k), k.r)

TmpPath(d, k) == Suffix(FnlPath(d, k), ".tmp")

\* Read's record.
RecordPath(d, k) == Join(Join(d.dir, k.c), k.r)

\* ReadAll's dir.
CollectionDir(d, k) == Join(d.dir, k.c)

\* Delete's path (its lock key) and dir.
DeletePath(k) == Join(Clean(k.c), Clean(k.r))

\* A Delete that leaves the resource out of its target.
DeleteDirNoResource(d, k) == Join(d.dir, Clean(k.c))

DeleteDir(d, k) == Join(d.dir, DeletePath(k))

\* The key a call passes to getOrCreateMutex.
LockKey(k) == IF k.op = "Write" THEN k.c ELSE DeletePath(k)

\* getOrCreateMutex: the registry after the lookup, and the mutex returned,
\* which is a copy of the value stored in the map.
GetOrCreateMutex(ms, key) ==
    LET ms2 == IF key \in DOMAIN ms THEN ms
               ELSE [x \in DOMAIN ms \cup {key} |->
                        IF x = key THEN FALSE ELSE ms[x]]
    IN [ms |-> ms2, m |-> ms2[key]]

(***************************************************************************)
(* Calls                                                                   *)
(***************************************************************************)

\* A caller enters New, Write, Read, ReadAll, ReadAllMap or Delete: the
\* argument checks at the top of the function either return the error or
\* let the call go on.  New's error leaves the caller without a Driver.
Begin(p, k) ==
    /\ pc[p] \in {"idle", "done"}
    /\ k.op = "New" \/ driver.ok
    /\ call' = [call EXCEPT ![p] = k]
    /\ loc' = [loc EXCEPT ![p] = NoLoc]
    /\ IF Check(k) = "nil"
       THEN /\ pc' = [pc EXCEPT ![p] = FirstPc(k.op)]
            /\ res' = [res EXCEPT ![p] = NoRes]
            /\ UNCHANGED driver
       ELSE /\ pc' = [pc EXCEPT ![p] = "done"]
            /\ res' = [res EXCEPT ![p] = [err |-> Check(k), val |-> <<>>]]
            /\ driver' = IF k.op = "New" THEN NoDriver ELSE driver
    /\ UNCHANGED <<fs, mutexes, guard, mtx, fd>>

\* The record of the calls made so far, kept by a single caller.
Remember(p) ==
    LET k == call[p]
        e == res[p].err
    IN /\ lastMut' = IF k.op \in {"New", "Write", "Delete"}
                     THEN (IF e = "nil" THEN [err |-> e, call |-> k] ELSE NoMut)
                     ELSE lastMut
       /\ track' = IF k.op \in {"New", "Delete"} THEN NoTrack
                   ELSE IF k.op # "Write" THEN track
                   ELSE IF track.on /\ (k.c # track.c \/ k.r # track.r)
                   THEN track
                   ELSE IF e = "nil"
                   THEN [v |-> k.v, c |-> k.c, r |-> k.r, on |-> TRUE]
                   ELSE NoTrack

\* A call of the single caller.
SeqCall(p, k) ==
    Begin(p, k) /\ Remember(p) /\ UNCHANGED <<calls, store, pre>>

\* A call of one of the concurrent callers.
ConcCall(p, k) ==
    /\ calls[p] < MaxCalls
    /\ Begin(p, k)
    /\ calls' = [calls EXCEPT ![p] = @ + 1]
    /\ UNCHANGED <<lastMut, track, store, pre>>

\* The resources a completed call leaves written: a successful Write adds
\* its resource, a successful Delete takes away its resource, or with an
\* empty resource every resource of its collection.
Record(p) ==
    LET k == call[p]
        ok == res[p].err = "nil"
        keep == IF k.op # "Delete" \/ ~ok THEN DOMAIN store
                ELSE IF k.r = EmptyStr THEN {x \in DOMAIN store : x[1] # k.c}
                ELSE DOMAIN store \ {<<k.c, k.r>>}
    IN store' = IF k.op = "Write" /\ ok
                THEN [x \in DOMAIN store \cup {<<k.c, k.r>>} |->
                         IF x = <<k.c, k.r>> THEN k.v ELSE store[x]]
                ELSE [x \in keep |-> store[x]]

\* A call of the single caller, with the written resources and the file
\* system at the call kept for comparison.
StoreCall(p, k) ==
    /\ Begin(p, k)
    /\ Record(p)
    /\ pre' = fs
    /\ UNCHANGED <<lastMut, track, calls>>

Ghosts == <<lastMut, track, calls, store, pre>>

\* The call returns err (and val); the deferred mutex.Unlock() runs.
Return(p, err, val) ==
    /\ pc' = [pc EXCEPT ![p] = "done"]
    /\ res' = [res EXCEPT ![p] = [err |-> err, val |-> val]]
    /\ mtx' = [mtx EXCEPT ![p] = FALSE]

(***************************************************************************)
(* New                                                                     *)
(***************************************************************************)

NewDriver(k) == [ok |-> TRUE, dir |-> Clean(k.c)]

\* A New that creates with os.Mkdir: an existing directory is an error.
NStatExclusive(p) ==
    /\ pc[p] = "n_stat"
    /\ IF Stat(fs, Node(Clean(call[p].c))) \in {"dir", "file"}
       THEN /\ Return(p, "EEXIST", <<>>)
            /\ driver' = NoDriver
            /\ mutexes' = <<>>
       ELSE /\ pc' = [pc EXCEPT ![p] = "n_mkdir"]
            /\ UNCHANGED <<res, mtx, driver, mutexes>>
    /\ UNCHANGED <<fs, guard, call, fd, loc, Ghosts>>

\* New: os.Stat(dir); an existing database is used as it is.
NStat(p) ==
    /\ pc[p] = "n_stat"
    /\ IF Stat(fs, Node(Clean(call[p].c))) \in {"dir", "file"}
       THEN /\ Return(p, "nil", <<>>)
            /\ driver' = NewDriver(call[p])
            /\ mutexes' = <<>>
       ELSE /\ pc' = [pc EXCEPT ![p] = "n_mkdir"]
            /\ UNCHANGED <<res, mtx, driver, mutexes>>
    /\ UNCHANGED <<fs, guard, call, fd, loc, Ghosts>>

\* New: return &driver, os.MkdirAll(dir, 0755).
NMkdir(p) ==
    /\ pc[p] = "n_mkdir"
    /\ LET m == MkdirAll(fs, Node(Clean(call[p].c)))
       IN /\ fs' = m.fs
          /\ Return(p, m.err, <<>>)
    /\ driver' = NewDriver(call[p])
    /\ mutexes' = <<>>
    /\ UNCHANGED <<guard, call, fd, loc, Ghosts>>

(***************************************************************************)
(* getOrCreateMutex and mutex.Lock(), in Write and Delete                  *)
(***************************************************************************)

\* d.mutex.Lock().
GuardLock(p) ==
    /\ pc[p] = "guard"
    /\ guard = "free"
    /\ guard' = p
    /\ pc' = [pc EXCEPT ![p] = "get"]
    /\ UNCHANGED <<fs, driver, mutexes, call, mtx, fd, loc, res, Ghosts>>

\* A getOrCreateMutex without the deferred d.mutex.Unlock().
GetMutexKeepGuard(p) ==
    /\ pc[p] = "get"
    /\ guard = p
    /\ LET g == GetOrCreateMutex(mutexes, LockKey(call[p]))
       IN /\ mutexes' = g.ms
          /\ mtx' = [mtx EXCEPT ![p] = g.m]
    /\ pc' = [pc EXCEPT ![p] = "lock"]
    /\ UNCHANGED <<fs, driver, guard, call, fd, loc, res, Ghosts>>

\* The map lookup, the insert of a missing mutex, the deferred
\* d.mutex.Unlock(), and the return of the mutex by value.
GetMutex(p) ==
    /\ pc[p] = "get"
    /\ guard = p
    /\ LET g == GetOrCreateMutex(mutexes, LockKey(call[p]))
       IN /\ mutexes' = g.ms
          /\ mtx' = [mtx EXCEPT ![p] = g.m]
    /\ guard' = "free"
    /\ pc' = [pc EXCEPT ![p] = "lock"]
    /\ UNCHANGED <<fs, driver, call, fd, loc, res, Ghosts>>

\* mutex.Lock() on the caller's variable.
MutexLock(p) ==
    /\ pc[p] = "lock"
    /\ ~mtx[p]
    /\ mtx' = [mtx EXCEPT ![p] = TRUE]
    /\ pc' = [pc EXCEPT ![p] = IF call[p].op = "Write" THEN "w_mkdir" ELSE "d_stat"]
    /\ UNCHANGED <<fs, driver, mutexes, guard, call, fd, loc, res, Ghosts>>

(***************************************************************************)
(* Write                                                                   *)
(***************************************************************************)

\* os.MkdirAll(dir, 0755), then json.MarshalIndent.
WMkdir(p) ==
    /\ pc[p] = "w_mkdir"
    /\ LET m == MkdirAll(fs, Node(WriteDir(driver, call[p])))
       IN /\ fs' = m.fs
          /\ IF m.err # "nil" THEN Return(p, m.err, <<>>)
             ELSE IF ~Marshalable(call[p].v)
             THEN Return(p, "UnsupportedType", <<>>)
             ELSE /\ pc' = [pc EXCEPT ![p] = "w_open"]
                  /\ UNCHANGED <<res, mtx>>
    /\ UNCHANGED <<driver, mutexes, guard, call, fd, loc, Ghosts>>

\* ioutil.WriteFile(tmpPath, b, 0644): the open, which truncates.
WOpen(p) ==
    /\ pc[p] = "w_open"
    /\ LET o == OpenTrunc(fs, Node(TmpPath(driver, call[p])))
       IN /\ fs' = o.fs
          /\ IF o.err = "nil"
             THEN /\ pc' = [pc EXCEPT ![p] = "w_write"]
                  /\ fd' = [fd EXCEPT ![p] = FdAt(Node(TmpPath(driver, call[p])))]
                  /\ UNCHANGED <<res, mtx>>
             ELSE /\ Return(p, o.err, <<>>)
                  /\ UNCHANGED fd
    /\ UNCHANGED <<driver, mutexes, guard, call, loc, Ghosts>>

\* ioutil.WriteFile: the write and the close.
WWrite(p) ==
    /\ pc[p] = "w_write"
    /\ fs' = WriteFd(fs, fd[p], MarshalIndent(call[p].v))
    /\ fd' = [fd EXCEPT ![p] = NoFd]
    /\ pc' = [pc EXCEPT ![p] = "w_rename"]
    /\ UNCHANGED <<driver, mutexes, guard, call, mtx, loc, res, Ghosts>>

\* return os.Rename(tmpPath, fnlPath).
WRename(p) ==
    /\ pc[p] = "w_rename"
    /\ LET old == Node(TmpPath(driver, call[p]))
           new == Node(FnlPath(driver, call[p]))
           m == Rename(fs, old, new)
       IN /\ fs' = m.fs
          /\ fd' = [q \in Procs |->
                       IF m.err = "nil" THEN FdAfterRename(fd[q], old, new)
                       ELSE fd[q]]
          /\ Return(p, m.err, <<>>)
    /\ UNCHANGED <<driver, mutexes, guard, call, loc, Ghosts>>

(***************************************************************************)
(* Delete                                                                  *)
(***************************************************************************)

\* stat(dir): a missing target is success, another error is returned.
DStat(p) ==
    /\ pc[p] = "d_stat"
    /\ LET s == Stat(fs, Node(DeleteDir(driver, call[p])))
       IN IF s \in {"dir", "file"}
          THEN /\ pc' = [pc EXCEPT ![p] = "d_remove"]
               /\ UNCHANGED <<res, mtx>>
          ELSE Return(p, IF s = "ENOENT" THEN "nil" ELSE "UnableToStat", <<>>)
    /\ UNCHANGED <<fs, driver, mutexes, guard, call, fd, loc, Ghosts>>

\* return os.RemoveAll(dir).
DRemove(p) ==
    /\ pc[p] = "d_remove"
    /\ LET n == Node(DeleteDir(driver, call[p]))
       IN /\ fs' = RemoveAll(fs, n)
          /\ fd' = [q \in Procs |-> FdAfterRemove(fd[q], n)]
    /\ Return(p, "nil", <<>>)
    /\ UNCHANGED <<driver, mutexes, guard, call, loc, Ghosts>>

(***************************************************************************)
(* Read                                                                    *)
(***************************************************************************)

\* stat(record).
RStat(p) ==
    /\ pc[p] = "r_stat"
    /\ LET s == Stat(fs, Node(RecordPath(driver, call[p])))
       IN IF s \in {"dir", "file"}
          THEN /\ pc' = [pc EXCEPT ![p] = "r_read"]
               /\ UNCHANGED <<res, mtx>>
          ELSE Return(p, s, <<>>)
    /\ UNCHANGED <<fs, driver, mutexes, guard, call, fd, loc, Ghosts>>

\* ioutil.ReadFile(record), then json.Unmarshal(b, &v).
RRead(p) ==
    /\ pc[p] = "r_read"
    /\ LET f == ReadFile(fs, Node(RecordPath(driver, call[p])))
           u == Unmarshal(f.b)
       IN IF f.err # "nil" THEN Return(p, f.err, <<>>)
          ELSE IF ~u.ok THEN Return(p, "DecodeFailed", <<>>)
          ELSE Return(p, "nil", u.v)
    /\ UNCHANGED <<fs, driver, mutexes, guard, call, fd, loc, Ghosts>>

(***************************************************************************)
(* ReadAll and ReadAllMap                                                  *)
(***************************************************************************)

\* stat(dir).
RAStat(p) ==
    /\ pc[p] = "ra_stat"
    /\ LET s == Stat(fs, Node(CollectionDir(driver, call[p])))
       IN IF s \in {"dir", "file"}
          THEN /\ pc' = [pc EXCEPT ![p] = "ra_readdir"]
               /\ UNCHANGED <<res, mtx>>
          ELSE Return(p, "DirNotExist", <<>>)
    /\ UNCHANGED <<fs, driver, mutexes, guard, call, fd, loc, Ghosts>>

\* files, _ := ioutil.ReadDir(dir); with no entry the loop is skipped.
RAReadDir(p) ==
    /\ pc[p] = "ra_readdir"
    /\ LET names == ReadDir(fs, Node(CollectionDir(driver, call[p])))
       IN /\ loc' = [loc EXCEPT ![p] = [names |-> names, recs |-> <<>>]]
          /\ IF names = <<>>
             THEN Return(p, "nil", <<>>)
             ELSE /\ pc' = [pc EXCEPT ![p] = "ra_file"]
                  /\ UNCHANGED <<res, mtx>>
    /\ UNCHANGED <<fs, driver, mutexes, guard, call, fd, Ghosts>>

\* One round of the loop: ioutil.ReadFile of the next entry; an error ends
\* the call with no records.
RAFile(p) ==
    /\ pc[p] = "ra_file"
    /\ LET name == loc[p].names[Len(loc[p].recs) + 1]
           dir == Node(CollectionDir(driver, call[p]))
           f == ReadFile(fs, Append(dir, name))
           recs == Append(loc[p].recs, [name |-> name, b |-> f.b])
       IN IF f.err # "nil"
          THEN /\ Return(p, f.err, <<>>)
               /\ loc' = [loc EXCEPT ![p].recs = <<>>]
          ELSE /\ loc' = [loc EXCEPT ![p].recs = recs]
               /\ IF Len(recs) = Len(loc[p].names)
                  THEN Return(p, "nil", <<>>)
                  ELSE UNCHANGED <<pc, res, mtx>>
    /\ UNCHANGED <<fs, driver, mutexes, guard, call, fd, Ghosts>>

\* What ReadAll returns: the contents, in listing order.
Records(l) == [i \in 1..Len(l.recs) |-> l.recs[i].b]

\* What ReadAllMap returns: file name -> content.
RecordMap(l) ==
    [n \in {l.recs[i].name : i \in 1..Len(l.recs)} |->
        (CHOOSE x \in {l.recs[i] : i \in 1..Len(l.recs)} : x.name = n).b]

(***************************************************************************)
(* Specifications                                                          *)
(***************************************************************************)

\* A step inside a call.
Step(p) ==
    \/ GuardLock(p)
    \/ GetMutex(p)
    \/ MutexLock(p)
    \/ WMkdir(p)
    \/ WOpen(p)
    \/ WWrite(p)
    \/ WRename(p)
    \/ DStat(p)
    \/ DRemove(p)
    \/ RStat(p)
    \/ RRead(p)
    \/ RAStat(p)
    \/ RAReadDir(p)
    \/ RAFile(p)

Op(op, c, r, v) == [v |-> v, op |-> op, c |-> c, r |-> r]

CallNew(p) == \E d \in RootDirs : SeqCall(p, Op("New", d, EmptyStr, <<>>))

CallWrite(p) ==
    \E c \in Collections, r \in Resources, v \in Values :
        SeqCall(p, Op("Write", c, r, v))

CallRead(p) ==
    \E c \in Collections, r \in Resources : SeqCall(p, Op("Read", c, r, <<>>))

CallReadAll(p) ==
    \E c \in Collections : SeqCall(p, Op("ReadAll", c, EmptyStr, <<>>))

CallReadAllMap(p) ==
    \E c \in Collections : SeqCall(p, Op("ReadAllMap", c, EmptyStr, <<>>))

CallDelete(p) ==
    \E c \in Collections, r \in Resources : SeqCall(p, Op("Delete", c, r, <<>>))

\* One caller using the package: each call runs to its return before the
\* next one starts.
Next ==
    \/ CallNew("p1")
    \/ CallWrite("p1")
    \/ CallRead("p1")
    \/ CallReadAll("p1")
    \/ CallReadAllMap("p1")
    \/ CallDelete("p1")
    \/ NStat("p1")
    \/ NMkdir("p1")
    \/ Step("p1")

Spec == Init /\ [][Next]_vars

\* The database directory of the concurrent callers.
SharedDir == Str(TRUE, <<"home", "u", "x">>)

Fish == Str(FALSE, <<"fish">>)

ResA == Str(FALSE, <<"a">>)

\* After New("/home/u/x"): two goroutines share the Driver.
InitConc ==
    /\ fs = [dirs |-> Prefixes(Node(SharedDir)), files |-> <<>>]
    /\ driver = [ok |-> TRUE, dir |-> SharedDir]
    /\ mutexes = <<>>
    /\ guard = "free"
    /\ pc = [p \in Procs |-> "idle"]
    /\ call = [p \in Procs |-> NoCall]
    /\ mtx = [p \in Procs |-> FALSE]
    /\ fd = [p \in Procs |-> NoFd]
    /\ loc = [p \in Procs |-> NoLoc]
    /\ res = [p \in Procs |-> NoRes]
    /\ lastMut = NoMut
    /\ track = NoTrack
    /\ calls = [p \in Procs |-> 0]
    /\ store = <<>>
    /\ pre = fs

GoWrite(p) == \E v \in Values : ConcCall(p, Op("Write", Fish, ResA, v))

GoRead(p) == ConcCall(p, Op("Read", Fish, ResA, <<>>))

GoReadAll(p) == ConcCall(p, Op("ReadAll", Fish, EmptyStr, <<>>))

GoDelete(p) == \E r \in {ResA, EmptyStr} : ConcCall(p, Op("Delete", Fish, r, <<>>))

\* Concurrent callers: their steps interleave.
NextConc ==
    \E p \in Procs :
        \/ GoWrite(p)
        \/ GoRead(p)
        \/ GoReadAll(p)
        \/ GoDelete(p)
        \/ Step(p)

SpecConc == InitConc /\ [][NextConc]_vars

\* The steps of Write and Delete that take a lock.
LockStep(p) == GuardLock(p) \/ GetMutex(p) \/ MutexLock(p)

\* The steps of Write and Delete between mutex.Lock() and the return: none
\* of them waits for anything.
FileStep(p) ==
    WMkdir(p) \/ WOpen(p) \/ WWrite(p) \/ WRename(p) \/ DStat(p) \/ DRemove(p)

\* The caller is at one of these steps, which is then enabled.
InFileStep(p) ==
    pc[p] \in {"w_mkdir", "w_open", "w_write", "w_rename", "d_stat", "d_remove"}

\* The concurrent callers under a fair scheduler: a goroutine whose Lock()
\* can succeed is not left waiting forever, and a goroutine inside Write
\* or Delete goes on running (weak fairness of FileStep, written with its
\* enabling condition InFileStep).
SpecConcFair ==
    /\ InitConc
    /\ [][NextConc]_vars
    /\ \A p \in Procs :
          /\ WF_vars(LockStep(p))
          /\ []<>(~InFileStep(p)) \/ []<><<FileStep(p)>>_vars

\* The directories the store is opened at: /home/u/x, the same with a
\* trailing separator, and /home/u.
StoreRoots ==
    {SharedDir, Str(TRUE, <<"home", "u", "x", "">>), Str(TRUE, <<"home", "u">>)}

\* The values written to the store: [7], [1, 2] and one json cannot encode.
StoreValues == Values \cup {<<NoJSON>>}

StoreNew(p) == \E d \in StoreRoots : StoreCall(p, Op("New", d, EmptyStr, <<>>))

StoreWrite(p) ==
    \E c \in Collections, r \in Resources, v \in StoreValues :
        StoreCall(p, Op("Write", c, r, v))

StoreRead(p) ==
    \E c \in Collections, r \in Resources : StoreCall(p, Op("Read", c, r, <<>>))

StoreReadAll(p) ==
    \E c \in Collections : StoreCall(p, Op("ReadAll", c, EmptyStr, <<>>))

StoreReadAllMap(p) ==
    \E c \in Collections : StoreCall(p, Op("ReadAllMap", c, EmptyStr, <<>>))

StoreDelete(p) ==
    \E c \in Collections, r \in Resources :
        StoreCall(p, Op("Delete", c, r, <<>>))

\* One caller, call after call, with the record of what it has written.
NextStore ==
    \/ StoreNew("p1")
    \/ StoreWrite("p1")
    \/ StoreRead("p1")
    \/ StoreReadAll("p1")
    \/ StoreReadAllMap("p1")
    \/ StoreDelete("p1")
    \/ NStat("p1")
    \/ NMkdir("p1")
    \/ Step("p1")

SpecStore == Init /\ [][NextStore]_vars

Fowl == Str(FALSE, <<"fowl">>)

\* Two collections of the store at /home/u/x, as the tests use "fish".
FrameCollections == {Fish, Fowl}

\* Plain resource names, and the empty one that makes Delete remove the
\* collection.
FrameResources == {EmptyStr, ResA, Str(FALSE, <<"a.tmp">>)}

FrameWrite(p) ==
    \E c \in FrameCollections, r \in FrameResources \ {EmptyStr}, v \in Values :
        StoreCall(p, Op("Write", c, r, v))

FrameRead(p) ==
    \E c \in FrameCollections, r \in FrameResources \ {EmptyStr} :
        StoreCall(p, Op("Read", c, r, <<>>))

FrameReadAll(p) ==
    \E c \in FrameCollections, op \in {"ReadAll", "ReadAllMap"} :
        StoreCall(p, Op(op, c, EmptyStr, <<>>))

FrameDelete(p) ==
    \E c \in FrameCollections, r \in FrameResources :
        StoreCall(p, Op("Delete", c, r, <<>>))

\* One caller of an open Driver, working on two collections.
NextFrame ==
    \/ FrameWrite("p1")
    \/ FrameRead("p1")
    \/ FrameReadAll("p1")
    \/ FrameDelete("p1")
    \/ Step("p1")

SpecFrame == InitConc /\ [][NextFrame]_vars

(***************************************************************************)
(* Properties                                                              *)
(***************************************************************************)

\* The caller has returned from a call of this operation.
Returned(p, op) == pc[p] = "done" /\ call[p].op = op

\* The final path of resource (fish, a) of the shared database.
FishA == Node(Join(Join(SharedDir, Fish), ResA))

\* The file at its final path holds one complete serialization.
Complete(f, n) == \E v \in Values : f.files[n] = MarshalIndent(v)

\* C1: round trip.  When a Write(c, r, v) has returned success and no New,
\* no Delete and no other Write(c, r, _) has been called since (Writes of
\* other resources and reads may have been), Read(c, r) returns success and
\* the value v.
C1_RoundTrip ==
    \A p \in Procs :
        (/\ Returned(p, "Read")
         /\ track.on
         /\ track.c = call[p].c
         /\ track.r = call[p].r)
        => (res[p].err = "nil" /\ res[p].val = track.v)

\* C2: atomic publish.  In every state the file at the final path of a
\* resource is absent or holds the complete serialization of a written
\* value: never an empty, truncated or mixed file.
C2_AtomicPublish ==
    FishA \in DOMAIN fs.files => Complete(fs, FishA)

\* C3: mutual exclusion outcome.  When two callers have each made one call,
\* Write(c, r, v1) and Write(c, r, v2) with v1 # v2, and both have returned,
\* both returned success and the resource holds exactly v1 or v2, complete.
C3_MutualExclusionOutcome ==
    (/\ \A p \in Procs : Returned(p, "Write") /\ calls[p] = 1
     /\ call["p1"].v # call["p2"].v)
    => /\ \A p \in Procs : res[p].err = "nil"
       /\ FishA \in DOMAIN fs.files
       /\ fs.files[FishA] \in {MarshalIndent(call[p].v) : p \in Procs}

\* The caller is between mutex.Lock() and mutex.Unlock() of Write.
InWrite(p) ==
    call[p].op = "Write" /\ pc[p] \in {"w_mkdir", "w_open", "w_write", "w_rename"}

\* C4: Write/Write exclusion.  No two callers are at the same time between
\* mutex.Lock() and mutex.Unlock() of Write for the same collection.
C4_WriteWriteExclusion ==
    \A p, q \in Procs :
        (p # q /\ InWrite(p) /\ InWrite(q)) => call[p].c # call[q].c

\* The Write has created the directory and not yet renamed the temp file.
MidWrite(p) == call[p].op = "Write" /\ pc[p] \in {"w_open", "w_write", "w_rename"}

\* C5: Write/Delete exclusion.  A Delete(c, r) or Delete(c, "") is never at
\* its removal while a Write(c, r, v) is between its directory creation and
\* its rename; and when one caller has made the Write and the other the
\* Delete, and both have returned, the Write returned success and the
\* resource is absent or holds the complete v.
C5_WriteDeleteExclusion ==
    \A p, q \in Procs :
        (p # q /\ call[p].op = "Write" /\ call[q].op = "Delete")
        => /\ ~(MidWrite(p) /\ pc[q] = "d_remove")
           /\ (/\ pc[p] = "done" /\ pc[q] = "done"
               /\ calls[p] = 1 /\ calls[q] = 1)
              => /\ res[p].err = "nil"
                 /\ FishA \in DOMAIN fs.files
                      => fs.files[FishA] = MarshalIndent(call[p].v)

\* C6: idempotent delete.  Delete(c, r) with a non-empty collection and a
\* non-empty resource returns success, whether its target exists or not.
C6_IdempotentDelete ==
    \A p \in Procs :
        (/\ Returned(p, "Delete")
         /\ call[p].c # EmptyStr
         /\ call[p].r # EmptyStr)
        => res[p].err = "nil"

\* Something exists at or below the node.
Occupied(f, n) == \E x \in f.dirs \cup DOMAIN f.files : IsPrefix(n, x)

\* C7: collection-wide delete.  When Delete(c, "") returns, nothing is left
\* of the collection; and while it is the last New, Write or Delete, every
\* Read(c, r) returns an error and ReadAll(c) and ReadAllMap(c) return the
\* directory-does-not-exist error, not an empty result.
C7_CollectionDelete ==
    \A p \in Procs :
        /\ (Returned(p, "Delete") /\ call[p].r = EmptyStr /\ res[p].err = "nil")
           => ~Occupied(fs, Node(CollectionDir(driver, call[p])))
        /\ (/\ pc[p] = "done"
            /\ lastMut.call.op = "Delete"
            /\ lastMut.call.r = EmptyStr
            /\ lastMut.call.c = call[p].c)
           => /\ call[p].op = "Read" => res[p].err # "nil"
              /\ call[p].op \in {"ReadAll", "ReadAllMap"}
                    => res[p].err = "DirNotExist"

\* C7 witness: a collection that had just been written to was deleted as a
\* whole, and nothing is left of it.
C7_Witness ==
    /\ Returned("p1", "Delete")
    /\ call["p1"].r = EmptyStr
    /\ res["p1"].err = "nil"
    /\ lastMut.call.op = "Write"
    /\ lastMut.call.c = call["p1"].c
    /\ ~Occupied(fs, Node(CollectionDir(driver, call["p1"])))

\* The calls C8 is about: an empty collection, an empty resource for Write
\* and Read, a collection directory that does not exist for ReadAll(Map).
Invalid(k, f, d) ==
    \/ k.op \in {"Write", "Read"} /\ (k.c = EmptyStr \/ k.r = EmptyStr)
    \/ k.op \in {"ReadAll", "ReadAllMap"}
       /\ (k.c = EmptyStr \/ Stat(f, Node(CollectionDir(d, k))) = "ENOENT")
    \/ k.op = "Delete" /\ k.c = EmptyStr

\* C8: validation without mutation.  Every step of such a call leaves the
\* files, the directories and the lock registry as they were, and the call
\* returns an error.
C8_ValidationNoMutation ==
    [][\A p \in Procs :
          Invalid(call'[p], fs, driver)
          => /\ fs' = fs
             /\ mutexes' = mutexes
             /\ pc'[p] = "done" => res'[p].err # "nil"]_vars

\* C8 witness: Delete with an empty collection has returned its error on a
\* store that holds a resource and a registry that holds a mutex.
C8_Witness ==
    /\ Returned("p1", "Delete")
    /\ call["p1"].c = EmptyStr
    /\ res["p1"].err = "MissingCollection"
    /\ mutexes # <<>>
    /\ DOMAIN fs.files # {}

\* The roots C9 names: the root, the drive root, the tilde, and the paths
\* one or two segments below /home.
NamedUnsafe(d) ==
    \/ d \in {SlashStr, Str(FALSE, <<"C:\\">>), Str(FALSE, <<"~">>)}
    \/ d.abs /\ Len(d.segs) \in {2, 3} /\ d.segs[1] = "home"

\* C9 as stated: unsafe root rejection.  New on such a root returns an
\* error and the caller gets no Driver.
C9_UnsafeRootTwoSegments ==
    \A p \in Procs :
        (Returned(p, "New") /\ NamedUnsafe(Clean(call[p].c)))
        => (res[p].err = "Unsafe" /\ ~driver.ok)

\* The roots New rejects: the root, the drive root, the tilde, and the paths
\* one segment below /home.
RejectedRoot(d) ==
    \/ d \in {SlashStr, Str(FALSE, <<"C:\\">>), Str(FALSE, <<"~">>)}
    \/ d.abs /\ Len(d.segs) = 2 /\ d.segs[1] = "home"

\* C9 as amended: unsafe root rejection.  New on a root whose cleaned form
\* is the root, the drive root, the tilde or one segment below /home creates
\* nothing, returns an error and leaves the caller without a Driver.
C9_UnsafeRootRejection ==
    [][\A p \in Procs :
          (call'[p].op = "New" /\ RejectedRoot(Clean(call'[p].c)))
          => /\ fs' = fs
             /\ pc'[p] = "done"
             /\ res'[p].err = "Unsafe"
             /\ ~driver'.ok]_vars

\* C9 witness: New("/home/u/x/..") was rejected.
C9_Witness ==
    /\ Returned("p1", "New")
    /\ call["p1"].c = Str(TRUE, <<"home", "u", "x", "..">>)
    /\ res["p1"].err = "Unsafe"
    /\ ~driver.ok

\* C10: store root lifecycle.  Once New has succeeded, the root directory
\* of the caller's Driver exists in every later state.
C10_RootLifecycle ==
    driver.ok => Node(driver.dir) \in fs.dirs

\* C11: NotFound after delete.  Read(c, r), with both names non-empty,
\* returns an error when (c, r) is not among the resources written and not
\* deleted since (never written, or deleted by a successful Delete(c, r) or
\* Delete(c, "") with no successful Write(c, r, _) after it), and returns
\* success when it is among them.
C11_NotFoundAfterDelete ==
    \A p \in Procs :
        (/\ Returned(p, "Read")
         /\ call[p].c # EmptyStr
         /\ call[p].r # EmptyStr)
        => IF <<call[p].c, call[p].r>> \in DOMAIN store
           THEN res[p].err = "nil"
           ELSE res[p].err # "nil"

\* The file name of a resource.
FileName(r) == r.segs[Len(r.segs)]

\* The resources of collection c written and not deleted since: file name ->
\* the serialization of the last value written.
Live(c) ==
    [n \in {FileName(x[2]) : x \in {y \in DOMAIN store : y[1] = c}} |->
        MarshalIndent(store[<<c, Str(FALSE, <<n>>)>>])]

\* C12: enumeration correctness.  When a ReadAll(c) or ReadAllMap(c) has
\* returned and the collection directory exists, it returned success; the
\* entries map exactly the names of the resources written to c and not
\* deleted since to the serialization of the last value written, and
\* ReadAll has one entry per such resource.
C12_EnumerationCorrectness ==
    \A p \in Procs :
        (/\ pc[p] = "done"
         /\ call[p].op \in {"ReadAll", "ReadAllMap"}
         /\ call[p].c # EmptyStr
         /\ Stat(fs, Node(CollectionDir(driver, call[p]))) = "dir")
        => /\ res[p].err = "nil"
           /\ RecordMap(loc[p]) = Live(call[p].c)
           /\ Len(Records(loc[p])) = Cardinality(DOMAIN Live(call[p].c))

\* C13: all-or-nothing on failure.  When a Write has returned an error, the
\* directories and the files, with their contents, are those of before the
\* call.
C13_AllOrNothing ==
    \A p \in Procs :
        (Returned(p, "Write") /\ res[p].err # "nil") => fs = pre

\* C14: reuse of an existing store.  New on a directory that passes the
\* deny-list and already exists returns success and a Driver on that
\* directory, and leaves every directory and file as it was; this holds
\* each time New is called again.
C14_ReuseExistingStore ==
    \A p \in Procs :
        (/\ Returned(p, "New")
         /\ NewCheck(call[p].c) = "nil"
         /\ Stat(pre, Node(Clean(call[p].c))) = "dir")
        => /\ res[p].err = "nil"
           /\ fs = pre
           /\ driver.ok
           /\ Node(driver.dir) = Node(Clean(call[p].c))

\* C14 witness: New has returned success on a store that holds a resource
\* written through an earlier Driver, and nothing has changed.
C14_Witness ==
    /\ Returned("p1", "New")
    /\ DOMAIN store # {}
    /\ DOMAIN pre.files # {}
    /\ res["p1"].err = "nil"
    /\ fs = pre
    /\ driver.ok

\* C15: lock identity.  Two callers never both hold, locked and not yet
\* unlocked, the mutex that getOrCreateMutex gave them for the same key.
C15_LockIdentity ==
    \A p, q \in Procs :
        (p # q /\ mtx[p] /\ mtx[q]) => LockKey(call[p]) # LockKey(call[q])

\* The directory or file at n is not what it was when the call was made.
Changed(n) ==
    \/ (n \in pre.dirs) # (n \in fs.dirs)
    \/ (n \in DOMAIN pre.files) # (n \in DOMAIN fs.files)
    \/ /\ n \in DOMAIN pre.files
       /\ n \in DOMAIN fs.files
       /\ pre.files[n] # fs.files[n]

\* Every path that exists now or existed when the call was made.
Paths == pre.dirs \cup fs.dirs \cup DOMAIN pre.files \cup DOMAIN fs.files

\* C16: containment.  During and after a Write or a Delete, every directory
\* or file the call has created, replaced or removed lies strictly below
\* the root of the Driver.
C16_Containment ==
    \A p \in Procs :
        (call[p].op \in {"Write", "Delete"} /\ driver.ok)
        => \A n \in Paths :
              Changed(n)
              => IsPrefix(Node(driver.dir), n) /\ n # Node(driver.dir)

\* C17: enumeration sees only published records.  Every entry a successful
\* ReadAll returns is the complete serialization of a written value; none
\* is the entry of the temporary file a.tmp.
C17_OnlyPublished ==
    \A p \in Procs :
        (Returned(p, "ReadAll") /\ res[p].err = "nil")
        => \A i \in 1..Len(loc[p].recs) :
              /\ loc[p].recs[i].name # "a.tmp"
              /\ \E v \in Values : loc[p].recs[i].b = MarshalIndent(v)

\* C18: write frame.  When a Write(c, r, v) has returned success, every
\* file but the one at the final path of (c, r) exists iff it existed when
\* the call was made, with the same content.
C18_WriteFrame ==
    \A p \in Procs :
        (Returned(p, "Write") /\ res[p].err = "nil")
        => \A n \in DOMAIN pre.files \cup DOMAIN fs.files :
              n # Node(FnlPath(driver, call[p])) => ~Changed(n)

\* A resource name of one segment that is neither "." nor "..".
Plain(r) == ~r.abs /\ Len(r.segs) = 1 /\ r.segs[1] \notin {"", ".", ".."}

\* C19: single-resource delete frame.  When Delete(c, r) with a plain
\* resource name has returned, it returned success, the directories are
\* those of before the call (the collection still exists), and every file
\* but that of (c, r) is as it was; and a ReadAll or ReadAllMap of an
\* existing collection with no entry returns success and an empty result.
C19_DeleteFrame ==
    \A p \in Procs :
        /\ (/\ Returned(p, "Delete")
            /\ call[p].c # EmptyStr
            /\ Plain(call[p].r))
           => /\ res[p].err = "nil"
              /\ fs.dirs = pre.dirs
              /\ Node(DeleteDir(driver, call[p])) \notin DOMAIN fs.files
              /\ \A n \in DOMAIN pre.files \cup DOMAIN fs.files :
                    n # Node(DeleteDir(driver, call[p])) => ~Changed(n)
        /\ (/\ pc[p] = "done"
            /\ call[p].op \in {"ReadAll", "ReadAllMap"}
            /\ call[p].c # EmptyStr
            /\ Stat(fs, Node(CollectionDir(driver, call[p]))) = "dir"
            /\ ReadDir(fs, Node(CollectionDir(driver, call[p]))) = <<>>)
           => (res[p].err = "nil" /\ loc[p].recs = <<>>)

\* C19 witness: Delete has removed the last resource of a collection; the
\* collection directory is still there, empty, and another collection has
\* a resource.
C19_Witness ==
    /\ Returned("p1", "Delete")
    /\ Plain(call["p1"].r)
    /\ res["p1"].err = "nil"
    /\ Node(DeleteDir(driver, call["p1"])) \in DOMAIN pre.files
    /\ ReadDir(fs, Node(CollectionDir(driver, call["p1"]))) = <<>>
    /\ Node(CollectionDir(driver, call["p1"])) \in fs.dirs
    /\ DOMAIN fs.files # {}

\* A caller is inside a Write or a Delete that has not returned.
InLockedCall(p) ==
    call[p].op \in {"Write", "Delete"} /\ pc[p] \notin {"idle", "done"}

\* C20: termination, no deadlock.  Under fair scheduling every Write and
\* Delete a caller has started returns; a caller that goes on to lock its
\* per-key mutex no longer holds the guard d.mutex, and a caller that has
\* returned holds no per-key mutex.
C20_Termination ==
    /\ \A p \in Procs : InLockedCall(p) ~> (pc[p] = "done")
    /\ [](\A p \in Procs :
            /\ pc[p] \notin {"guard", "get"} => guard # p
            /\ pc[p] \in {"idle", "done"} => ~mtx[p])

\* C20 witness: a Write waits for d.mutex while the other caller, inside
\* getOrCreateMutex for a Delete, holds it.
C20_Witness ==
    /\ pc["p1"] = "guard"
    /\ call["p1"].op = "Write"
    /\ guard = "p2"
    /\ pc["p2"] = "get"
    /\ call["p2"].op = "Delete"

====
